---- MODULE Spec2Model ----
(***************************************************************************)
(* Model of the two timing state machines of the nixie clock firmware:     *)
(*   - ClockButton  (ardunixFade9_4_digit/ClockButton.cpp, ClockButton.h)  *)
(*   - Transition   (ardunixFade9_6_digit/Transition.cpp, Transition.h)    *)
(* The two objects share nothing; ButtonSpec runs the button alone,         *)
(* TransitionSpec the transition engine under every interleaving of its    *)
(* calls, DisplayLoopSpec the engine as the host loop drives it and         *)
(* HelperSpec its private helpers scroll and scramble on their own.        *)
(***************************************************************************)
EXTENDS Integers, Sequences, FiniteSets, TLC

VARIABLES
  \* ---- ClockButton fields (ClockButton.h 26-37)
  button1PressedCount,
  button1PressStartMillis,
  buttonWasReleased,
  buttonPress8S, buttonPress2S, buttonPress1S, buttonPress,
  buttonPressRelease8S, buttonPressRelease2S, buttonPressRelease1S,
  buttonPressRelease,
  \* ---- ClockButton call record: the last call, its inputs and its result
  bOp,          \* name of the last public method called
  bRet,         \* its return value (FALSE for the void methods)
  pin,          \* digitalRead(_inputPin) seen by the last checkButton
  millis,       \* nowMillis passed to the last checkButton
  prevCount,    \* button1PressedCount before the last call
  tier,         \* highest tier reached by the current or latest debounced press
  runLen,       \* consecutive pressed readings since the button was last idle
  allShort,     \* every run of pressed readings since then was < debounceCounter
  \* ---- Transition fields (Transition.h 28-36)
  effectInDuration, effectOutDuration, holdDuration,
  started, end,
  regularDisplay, alternateDisplay,
  savedScrollback, savedDisplayType,
  \* ---- the caller's globals (Transition.h 7-9)
  NumberArray, displayType, scrollback,
  \* ---- Transition call record
  tOp,          \* name of the last public method called
  tRet,         \* its return value (FALSE for the void methods)
  now,          \* the clock: the timestamp passed to the last timed call
  args,         \* arguments of the last direct call of scroll or scramble
  horizon,      \* the run is explored up to this time
  snapCalls,    \* number of snapshot-writing calls made so far
  preDisplayType, \* displayType just before the latest saveCurrentDisplayType
  preScrollback,  \* scrollback just before the latest saveCurrentDisplayType
  saidFalse,    \* a stepper has returned false since the latest new session
  driven        \* the one stepper called at every ms of this session so far

bvars == << button1PressedCount, button1PressStartMillis, buttonWasReleased,
            buttonPress8S, buttonPress2S, buttonPress1S, buttonPress,
            buttonPressRelease8S, buttonPressRelease2S, buttonPressRelease1S,
            buttonPressRelease,
            bOp, bRet, pin, millis, prevCount, tier, runLen, allShort >>

tvars == << effectInDuration, effectOutDuration, holdDuration, started, end,
            regularDisplay, alternateDisplay, savedScrollback, savedDisplayType,
            NumberArray, displayType, scrollback,
            tOp, tRet, now, args, horizon, snapCalls, preDisplayType, preScrollback,
            saidFalse, driven >>

vars == << bvars, tvars >>

----------------------------------------------------------------------------
\* Widths and program constants

debounceCounter == 5

\* thresholds of the held time, in ms
Hold8S == 8000
Hold2S == 2000
Hold1S == 1000

\* ---- bounds of the button model
\* the clock is not advanced past MaxMillis
MaxMillis == 9002

\* time that may pass between two checkButton calls
TickSteps == {0, 1000, 1001, 6000}

\* nowMillis - button1PressStartMillis in unsigned long: the clock of the model
\* never runs backwards and stays below 2^31, so the difference never wraps
SubUL(a, b) == a - b

----------------------------------------------------------------------------
\* ClockButton

ButtonInit ==
  /\ button1PressedCount = 0
  /\ button1PressStartMillis = 0
  /\ buttonWasReleased = FALSE
  /\ buttonPress8S = FALSE /\ buttonPress2S = FALSE
  /\ buttonPress1S = FALSE /\ buttonPress = FALSE
  /\ buttonPressRelease8S = FALSE /\ buttonPressRelease2S = FALSE
  /\ buttonPressRelease1S = FALSE /\ buttonPressRelease = FALSE
  /\ bOp = "ClockButton" /\ bRet = FALSE /\ pin = 1 /\ millis = 0
  /\ prevCount = 0 /\ tier = 0
  /\ runLen = 0 /\ allShort = TRUE

\* the comparison "held > limit" of the press-state chain
HeldLongerThan_ge(held, limit) == held >= limit
HeldLongerThan(held, limit) == held > limit

\* the level flags <<8S, 2S, 1S, pressed>> maintained while pressed and held
PressStates_topOnly(held) ==
  IF held > Hold8S THEN << TRUE, FALSE, FALSE, FALSE >>
  ELSE IF held > Hold2S THEN << FALSE, TRUE, FALSE, FALSE >>
  ELSE IF held > Hold1S THEN << FALSE, FALSE, TRUE, FALSE >>
  ELSE << FALSE, FALSE, FALSE, TRUE >>
PressStates(held) ==
  IF HeldLongerThan(held, Hold8S) THEN << TRUE, TRUE, TRUE, TRUE >>
  ELSE IF HeldLongerThan(held, Hold2S) THEN << FALSE, TRUE, TRUE, TRUE >>
  ELSE IF HeldLongerThan(held, Hold1S) THEN << FALSE, FALSE, TRUE, TRUE >>
  ELSE << FALSE, FALSE, FALSE, TRUE >>

\* the release flags <<8S, 2S, 1S, plain>> chosen on a release
ReleaseFlags_mirrored(p8, p2, p1, p) == << p8, p2, p1, p >>
ReleaseFlags(p8, p2, p1, p) ==
  IF p8 THEN << TRUE, FALSE, FALSE, FALSE >>
  ELSE IF p2 THEN << FALSE, TRUE, FALSE, FALSE >>
  ELSE IF p1 THEN << FALSE, FALSE, TRUE, FALSE >>
  ELSE IF p THEN << FALSE, FALSE, FALSE, TRUE >>
  ELSE << FALSE, FALSE, FALSE, FALSE >>

\* tier number of a level-flag tuple: 4 = 8S, 3 = 2S, 2 = 1S, 1 = pressed
TierOf(p8, p2, p1, p) ==
  IF p8 THEN 4 ELSE IF p2 THEN 3 ELSE IF p1 THEN 2 ELSE IF p THEN 1 ELSE 0

Max(a, b) == IF a >= b THEN a ELSE b

\* the button is idle: nothing counted, nothing pending
IdleAfter(count, r8, r2, r1, r) == count = 0 /\ ~r8 /\ ~r2 /\ ~r1 /\ ~r

\* the debounce test "fewer than debounceCounter consecutive reads so far"
StillDebouncing(count) == count < debounceCounter

\* the counter after a released reading
CountAfterRelease_kept(count) == IF count = debounceCounter THEN 0 ELSE count
CountAfterRelease(count) == 0

\* checkButtonInternal(nowMillis) with digitalRead(_inputPin) = reading
checkButtonInternal(nowMillis, reading) ==
  /\ pin' = reading
  /\ millis' = nowMillis
  /\ prevCount' = button1PressedCount
  /\ IF reading = 0
     THEN /\ buttonWasReleased' = FALSE
          /\ IF StillDebouncing(button1PressedCount)
             THEN /\ button1PressedCount' = button1PressedCount + 1
                  /\ button1PressStartMillis' =
                       IF button1PressedCount + 1 = debounceCounter
                       THEN nowMillis ELSE button1PressStartMillis
                  /\ UNCHANGED << buttonPress8S, buttonPress2S, buttonPress1S,
                                  buttonPress >>
                  /\ tier' = IF button1PressedCount' = debounceCounter
                             THEN 1 ELSE 0
             ELSE LET held == SubUL(nowMillis, button1PressStartMillis)
                      ps == PressStates(held)
                  IN /\ buttonPress8S' = ps[1]
                     /\ buttonPress2S' = ps[2]
                     /\ buttonPress1S' = ps[3]
                     /\ buttonPress' = ps[4]
                     /\ tier' = Max(Max(tier, 1), TierOf(ps[1], ps[2], ps[3], ps[4]))
                     /\ UNCHANGED << button1PressedCount, button1PressStartMillis >>
          /\ UNCHANGED << buttonPressRelease8S, buttonPressRelease2S,
                          buttonPressRelease1S, buttonPressRelease >>
          /\ runLen' = IF runLen < debounceCounter THEN runLen + 1 ELSE runLen
          /\ allShort' = (allShort /\ runLen + 1 < debounceCounter)
     ELSE /\ IF button1PressedCount = debounceCounter
             THEN LET rf == ReleaseFlags(buttonPress8S, buttonPress2S,
                                         buttonPress1S, buttonPress)
                  IN /\ buttonWasReleased' = TRUE
                     /\ buttonPressRelease8S' = rf[1]
                     /\ buttonPressRelease2S' = rf[2]
                     /\ buttonPressRelease1S' = rf[3]
                     /\ buttonPressRelease' = rf[4]
             ELSE UNCHANGED << buttonWasReleased, buttonPressRelease8S,
                               buttonPressRelease2S, buttonPressRelease1S,
                               buttonPressRelease >>
          /\ buttonPress8S' = FALSE
          /\ buttonPress2S' = FALSE
          /\ buttonPress1S' = FALSE
          /\ buttonPress' = FALSE
          /\ button1PressedCount' = CountAfterRelease(button1PressedCount)
          /\ UNCHANGED button1PressStartMillis
          /\ UNCHANGED tier
          /\ runLen' = 0
          /\ allShort' = (allShort
                          \/ IdleAfter(button1PressedCount', buttonPressRelease8S',
                                       buttonPressRelease2S', buttonPressRelease1S',
                                       buttonPressRelease'))

\* checkButton(nowMillis): the clock has advanced by dt since the last call
checkButton(dt, reading) ==
  /\ millis + dt <= MaxMillis
  /\ bOp' = "checkButton"
  /\ bRet' = FALSE
  /\ checkButtonInternal(millis + dt, reading)

\* fields no accessor writes
ButtonCore == << button1PressedCount, button1PressStartMillis, buttonWasReleased,
                 buttonPress8S, buttonPress2S, buttonPress1S, buttonPress >>

ReleaseCore == << buttonPressRelease8S, buttonPressRelease2S,
                  buttonPressRelease1S, buttonPressRelease >>

\* what a call other than checkButton leaves of the call record
CallRecord(name, result) ==
  /\ bOp' = name
  /\ bRet' = result
  /\ prevCount' = button1PressedCount
  /\ UNCHANGED << pin, millis, tier >>

\* resetInternal()
resetInternal_keepsCount ==
  /\ buttonPressRelease8S' = FALSE
  /\ buttonPressRelease2S' = FALSE
  /\ buttonPressRelease1S' = FALSE
  /\ buttonPressRelease' = FALSE
  /\ buttonPress8S' = FALSE
  /\ buttonPress2S' = FALSE
  /\ buttonPress1S' = FALSE
  /\ buttonPress' = FALSE
  /\ UNCHANGED << button1PressedCount, button1PressStartMillis,
                  buttonWasReleased >>
resetInternal ==
  /\ buttonPressRelease8S' = FALSE
  /\ buttonPressRelease2S' = FALSE
  /\ buttonPressRelease1S' = FALSE
  /\ buttonPressRelease' = FALSE
  /\ buttonPress8S' = FALSE
  /\ buttonPress2S' = FALSE
  /\ buttonPress1S' = FALSE
  /\ buttonPress' = FALSE
  /\ button1PressedCount' = 0
  /\ UNCHANGED << button1PressStartMillis, buttonWasReleased >>

\* reset()
reset ==
  /\ CallRecord("reset", FALSE)
  /\ resetInternal
  /\ runLen' = 0
  /\ allShort' = TRUE

\* an accessor call leaves the button idle again once nothing is pending
AccessorRuns ==
  IF IdleAfter(button1PressedCount', buttonPressRelease8S', buttonPressRelease2S',
               buttonPressRelease1S', buttonPressRelease')
  THEN runLen' = 0 /\ allShort' = TRUE
  ELSE UNCHANGED << runLen, allShort >>

isButtonPressedNow ==
  /\ CallRecord("isButtonPressedNow", button1PressedCount = debounceCounter)
  /\ UNCHANGED << ButtonCore, ReleaseCore >>
  /\ AccessorRuns

isButtonPressed ==
  /\ CallRecord("isButtonPressed", buttonPress)
  /\ UNCHANGED << ButtonCore, ReleaseCore >>
  /\ AccessorRuns

isButtonPressed1S ==
  /\ CallRecord("isButtonPressed1S", buttonPress1S)
  /\ UNCHANGED << ButtonCore, ReleaseCore >>
  /\ AccessorRuns

isButtonPressed2S ==
  /\ CallRecord("isButtonPressed2S", buttonPress2S)
  /\ UNCHANGED << ButtonCore, ReleaseCore >>
  /\ AccessorRuns

isButtonPressed8S ==
  /\ CallRecord("isButtonPressed8S", buttonPress8S)
  /\ UNCHANGED << ButtonCore, ReleaseCore >>
  /\ AccessorRuns

\* the value a release accessor leaves in its flag
ClearedOnRead_kept(flag) == flag
ClearedOnRead(flag) == IF flag THEN FALSE ELSE flag

isButtonPressedAndReleased ==
  /\ CallRecord("isButtonPressedAndReleased", buttonPressRelease)
  /\ buttonPressRelease' = ClearedOnRead(buttonPressRelease)
  /\ UNCHANGED << ButtonCore, buttonPressRelease8S, buttonPressRelease2S,
                  buttonPressRelease1S >>
  /\ AccessorRuns

isButtonPressedReleased1S ==
  /\ CallRecord("isButtonPressedReleased1S", buttonPressRelease1S)
  /\ buttonPressRelease1S' = ClearedOnRead(buttonPressRelease1S)
  /\ UNCHANGED << ButtonCore, buttonPressRelease8S, buttonPressRelease2S,
                  buttonPressRelease >>
  /\ AccessorRuns

isButtonPressedReleased2S ==
  /\ CallRecord("isButtonPressedReleased2S", buttonPressRelease2S)
  /\ buttonPressRelease2S' = ClearedOnRead(buttonPressRelease2S)
  /\ UNCHANGED << ButtonCore, buttonPressRelease8S, buttonPressRelease1S,
                  buttonPressRelease >>
  /\ AccessorRuns

isButtonPressedReleased8S ==
  /\ CallRecord("isButtonPressedReleased8S", buttonPressRelease8S)
  /\ buttonPressRelease8S' = ClearedOnRead(buttonPressRelease8S)
  /\ UNCHANGED << ButtonCore, buttonPressRelease2S, buttonPressRelease1S,
                  buttonPressRelease >>
  /\ AccessorRuns

\* a step of the button leaves the transition engine alone
TransitionIdle == UNCHANGED tvars

ButtonNext ==
  \/ \E dt \in TickSteps, reading \in {0, 1} :
        checkButton(dt, reading) /\ TransitionIdle
  \/ reset /\ TransitionIdle
  \/ isButtonPressedNow /\ TransitionIdle
  \/ isButtonPressed /\ TransitionIdle
  \/ isButtonPressed1S /\ TransitionIdle
  \/ isButtonPressed2S /\ TransitionIdle
  \/ isButtonPressed8S /\ TransitionIdle
  \/ isButtonPressedAndReleased /\ TransitionIdle
  \/ isButtonPressedReleased1S /\ TransitionIdle
  \/ isButtonPressedReleased2S /\ TransitionIdle
  \/ isButtonPressedReleased8S /\ TransitionIdle

----------------------------------------------------------------------------
\* Transition: constants, bounds and pure helpers

\* display modes (DisplayDefs.h)
BLANKED == 0
DIMMED == 1
FADE == 2
NORMAL == 3
BLINK == 4
SCROLL == 5
BRIGHT == 6

Slots == 0..5

\* ---- bounds of the transition model
\* effect durations of the display loop range over MinEffect..MaxEffect ms
MaxEffect == 7
MinEffect == MaxEffect - 1
\* effect durations under free interleaving range over 1..MaxShortEffect ms
MaxShortEffect == 2
\* hold durations range over 0..MaxHold ms
MaxHold == 1
\* the clock is not advanced more than MaxIdle ms past the end of the latest
\* session
MaxIdle == 1
\* the clock is not advanced past MaxNow under free interleaving
MaxNow == 12
\* nor past MaxLoopNow in the display loop
MaxLoopNow == 32
\* snapshot-writing calls (set...Values, updateRegularDisplaySeconds) per run
MaxSnapCalls == 1

\* time that may pass between two timed calls
ClockSteps == {0, 1, 2}

\* arguments of updateRegularDisplaySeconds
SecondsArgs == {42}

\* the caller's buffers at construction time
InitialDigits == { [i \in Slots |-> i + 1] }
InitialDisplayTypes == { [i \in Slots |-> IF i < 2 THEN NORMAL ELSE BLINK] }

\* C integer division (truncation toward zero) for b > 0
CDiv(a, b) == IF a >= 0 THEN a \div b ELSE -((-a) \div b)

\* conversion of an int argument to byte
ToByte(x) == x % 256

\* ---- 32-bit unsigned arithmetic on pairs <<high 16 bits, low 16 bits>>
Half == 65536

RECURSIVE XorBits(_, _, _)
XorBits(a, b, n) ==
  IF n = 0 THEN 0
  ELSE ((a + b) % 2) + 2 * XorBits(a \div 2, b \div 2, n - 1)

Xor16(a, b) == XorBits(a, b, 16)

\* x = (x >> 16) ^ x
XorShift(x) == << x[1], Xor16(x[2], x[1]) >>

\* the multiplier 0x45d9f3b = 0x045d * 65536 + 0x9f * 256 + 0x3b
MulHigh == 1117
MulMid == 159
MulLow == 59

\* x * 0x45d9f3b modulo 2^32
MulHash(x) ==
  LET h == x[1]
      l == x[2]
      lowProd == ((l * MulMid) % 256) * 256 + l * MulLow
      carry == ((l * MulMid) \div 256) + (lowProd \div Half)
      highLow == (((h * MulMid) % 256) * 256 + h * MulLow) % Half
  IN << (carry + highLow + ((l * MulHigh) % Half)) % Half, lowProd % Half >>

\* Transition::hash
hash(x) == XorShift(MulHash(XorShift(MulHash(XorShift(x)))))

\* hash(v) % 10 for a small non-negative int v
HashMod10(v) ==
  LET r == hash(<< v \div Half, v % Half >>)
  IN ((r[1] % 10) * (Half % 10) + (r[2] % 10)) % 10

\* the largest msCount of a direct call of scramble
MaxScrambleMs == 45

\* the arguments msCount / 20 + i that the calls of the model can produce
HashArgs ==
  0..(Max(CDiv(4 * MaxEffect + MaxHold, 20), CDiv(MaxScrambleMs, 20)) + 6)

\* hash(v) % 10, tabulated
HashTable == [v \in HashArgs |-> HashMod10(v)]

HashDigit(v) == HashTable[v]

ScrollDigits_inPlace(digits, arg) ==
  LET count == ToByte(arg)
  IN [k \in Slots |-> IF count > 0 /\ k >= count THEN digits[k % count]
                      ELSE digits[k]]

\* Transition::scroll(byte count): the digits afterwards.  The parameter is a
\* byte, so a negative argument arrives as 256 + arg and the branch taken for
\* count < 0 (offset 5, slope -1) is never entered.
ScrollDigits(digits, arg) ==
  LET count == ToByte(arg)
  IN IF count < 0
     THEN [k \in Slots |-> IF 5 - k >= -count THEN digits[k - count] ELSE digits[k]]
     ELSE [k \in Slots |-> IF k >= count THEN digits[k - count] ELSE digits[k]]

ScrollTypes_resetsRest(types, arg) ==
  LET count == ToByte(arg)
  IN [k \in Slots |-> IF k < count THEN BLANKED ELSE NORMAL]

\* Transition::scroll(byte count): the display modes afterwards
ScrollTypes(types, arg) ==
  LET count == ToByte(arg)
  IN IF count < 0
     THEN [k \in Slots |-> IF 5 - k < -count THEN BLANKED ELSE types[k]]
     ELSE [k \in Slots |-> IF k < count THEN BLANKED ELSE types[k]]

ScrambleDigits_inclusive(digits, msCount, first, last) ==
  [k \in Slots |->
     IF first <= k /\ k <= last
     THEN HashDigit(CDiv(msCount, 20) + k)
     ELSE digits[k]]

\* Transition::scramble(msCount, start, end): the digits afterwards
ScrambleDigits(digits, msCount, first, last) ==
  [k \in Slots |->
     IF first <= k /\ k < last
     THEN HashDigit(CDiv(msCount, 20) + k)
     ELSE digits[k]]

\* the clock may advance by dt for the next timed call
ClockMayAdvance(dt) == now + dt <= horizon /\ now + dt <= end + MaxIdle

\* Transition::getEnd
getEnd(startedAt) ==
  startedAt + effectInDuration * 2 + holdDuration + effectOutDuration * 2

\* Transition::isMessageOnDisplay, the value returned
MessageOnDisplay(t) == t < end

\* the guard of the three steppers
stillRunning_inclusive(t) == t <= end
stillRunning(t) == t < end

\* the guard of start
mayStart_wrongField(t) == started < t
mayStart(t) == end < t

\* quantized offsets of the entrance and exit phases
OffsetIn(msCount) == CDiv((msCount % effectInDuration) * 6, effectInDuration)
ScrollOutArg(msCount) ==
  CDiv((-(msCount % effectInDuration)) * 6, effectInDuration) - 1
OffsetOut(msCount) ==
  CDiv(((msCount - holdDuration) % effectOutDuration) * 6, effectOutDuration)

\* phase of a running session: 1..5, 0 past the last phase
Phase(msCount) ==
  IF msCount < effectInDuration THEN 1
  ELSE IF msCount < effectInDuration * 2 THEN 2
  ELSE IF msCount < effectInDuration * 2 + holdDuration THEN 3
  ELSE IF msCount < effectInDuration * 2 + holdDuration + effectOutDuration THEN 4
  ELSE IF msCount < effectInDuration * 2 + holdDuration + effectOutDuration * 2
       THEN 5
  ELSE 0

----------------------------------------------------------------------------
\* Transition

\* Transition::Transition(effectInDuration, effectOutDuration, holdDuration)
\* with effect durations from effects and a hold duration from holds;
\* _savedScrollback has no initialiser.  The run is explored up to time limit.
ConstructedWith(effects, holds, limit, digits, types) ==
  /\ effectInDuration \in effects
  /\ effectOutDuration \in effects
  /\ holdDuration \in holds
  /\ started = 0
  /\ end = 0
  /\ regularDisplay = [i \in Slots |-> 0]
  /\ alternateDisplay = [i \in Slots |-> 0]
  /\ savedDisplayType = [i \in Slots |-> FADE]
  /\ savedScrollback \in BOOLEAN
  /\ NumberArray \in digits
  /\ displayType \in types
  /\ scrollback \in BOOLEAN
  /\ tOp = "Transition" /\ tRet = FALSE /\ now = 0 /\ args = << >>
  /\ horizon = limit /\ snapCalls = 0
  /\ preDisplayType = [i \in Slots |-> -1]
  /\ preScrollback = FALSE
  /\ saidFalse = FALSE
  /\ driven = "none"

\* the same with the caller's buffers as the firmware fills them
Constructed(effects, holds, limit) ==
  ConstructedWith(effects, holds, limit, InitialDigits, InitialDisplayTypes)

Config == << effectInDuration, effectOutDuration, holdDuration, horizon >>
Session == << started, end >>
Snapshots == << regularDisplay, alternateDisplay >>
SavedMode == << savedDisplayType, savedScrollback >>
LiveMode == << displayType, scrollback >>
SaveRecord == << preDisplayType, preScrollback >>

Steppers == { "scrollMsg", "scrambleMsg", "scrollInScrambleOut" }

\* Transition::saveCurrentDisplayType
saveCurrentDisplayType_clearFirst ==
  /\ savedDisplayType' = displayType
  /\ scrollback' = FALSE
  /\ savedScrollback' = scrollback'
saveCurrentDisplayType ==
  /\ savedDisplayType' = displayType
  /\ savedScrollback' = scrollback
  /\ scrollback' = FALSE

\* Transition::start(now), called dt ms after the previous timed call
start(dt) ==
  /\ ClockMayAdvance(dt)
  /\ now' = now + dt
  /\ tOp' = "start" /\ tRet' = FALSE
  /\ IF mayStart(now')
     THEN /\ started' = now'
          /\ end' = getEnd(started')
          /\ saveCurrentDisplayType
          /\ preDisplayType' = displayType
          /\ preScrollback' = scrollback
          /\ saidFalse' = FALSE
          /\ UNCHANGED displayType
     ELSE UNCHANGED << Session, SavedMode, LiveMode, SaveRecord, saidFalse >>
  /\ UNCHANGED << Config, Snapshots, NumberArray, snapCalls, args >>

\* Transition::isMessageOnDisplay(now)
isMessageOnDisplay(dt) ==
  /\ ClockMayAdvance(dt)
  /\ now' = now + dt
  /\ tOp' = "isMessageOnDisplay" /\ tRet' = MessageOnDisplay(now')
  /\ UNCHANGED << Config, Session, Snapshots, SavedMode, LiveMode, NumberArray,
                  snapCalls, SaveRecord, saidFalse, args >>

StepperRecord_savesMode(name, dt) ==
  /\ ClockMayAdvance(dt)
  /\ now' = now + dt
  /\ tOp' = name
  /\ tRet' = (now' < end)
  /\ saidFalse' = (saidFalse \/ ~tRet')
  /\ savedDisplayType' = displayType
  /\ savedScrollback' = scrollback
  /\ UNCHANGED << Config, Session, Snapshots, snapCalls, SaveRecord, args >>

\* what a stepper call leaves of the call record
StepperRecord(name, dt) ==
  /\ ClockMayAdvance(dt)
  /\ now' = now + dt
  /\ tOp' = name
  /\ tRet' = stillRunning(now')
  /\ saidFalse' = (saidFalse \/ ~tRet')
  /\ UNCHANGED << Config, Session, Snapshots, SavedMode, snapCalls, SaveRecord,
                  args >>

\* Transition::scrollMsg(now)
scrollMsg(dt) ==
  /\ StepperRecord("scrollMsg", dt)
  /\ IF stillRunning(now')
     THEN LET msCount == now' - started
              phase == Phase(msCount)
          IN /\ NumberArray' =
                  IF phase = 1
                  THEN ScrollDigits(regularDisplay, ScrollOutArg(msCount))
                  ELSE IF phase = 2
                  THEN ScrollDigits(alternateDisplay, 5 - OffsetIn(msCount))
                  ELSE IF phase = 3 THEN alternateDisplay
                  ELSE IF phase = 4
                  THEN ScrollDigits(alternateDisplay, OffsetOut(msCount) + 1)
                  ELSE IF phase = 5
                  THEN ScrollDigits(regularDisplay, OffsetOut(msCount) - 5)
                  ELSE NumberArray
             /\ displayType' =
                  IF phase = 1
                  THEN ScrollTypes(displayType, ScrollOutArg(msCount))
                  ELSE IF phase = 2
                  THEN ScrollTypes(displayType, 5 - OffsetIn(msCount))
                  ELSE IF phase = 4
                  THEN ScrollTypes(displayType, OffsetOut(msCount) + 1)
                  ELSE IF phase = 5
                  THEN ScrollTypes(displayType, OffsetOut(msCount) - 5)
                  ELSE displayType
             /\ UNCHANGED scrollback
     ELSE UNCHANGED << NumberArray, LiveMode >>

\* Transition::scrambleMsg(now)
scrambleMsg(dt) ==
  /\ StepperRecord("scrambleMsg", dt)
  /\ IF stillRunning(now')
     THEN LET msCount == now' - started
              phase == Phase(msCount)
          IN /\ NumberArray' =
                  IF phase = 1
                  THEN ScrambleDigits(regularDisplay, msCount,
                                      5 - OffsetIn(msCount), 6)
                  ELSE IF phase = 2
                  THEN ScrambleDigits(alternateDisplay, msCount,
                                      0, 5 - OffsetIn(msCount))
                  ELSE IF phase = 3 THEN alternateDisplay
                  ELSE IF phase = 4
                  THEN ScrambleDigits(alternateDisplay, msCount,
                                      0, OffsetOut(msCount) + 1)
                  ELSE IF phase = 5
                  THEN ScrambleDigits(regularDisplay, msCount,
                                      OffsetOut(msCount) + 1, 6)
                  ELSE NumberArray
             /\ UNCHANGED LiveMode
     ELSE UNCHANGED << NumberArray, LiveMode >>

\* Transition::scrollInScrambleOut(now)
scrollInScrambleOut(dt) ==
  /\ StepperRecord("scrollInScrambleOut", dt)
  /\ IF stillRunning(now')
     THEN LET msCount == now' - started
              phase == Phase(msCount)
          IN /\ NumberArray' =
                  IF phase = 1
                  THEN ScrollDigits(regularDisplay, ScrollOutArg(msCount))
                  ELSE IF phase = 2
                  THEN ScrollDigits(alternateDisplay, 5 - OffsetIn(msCount))
                  ELSE IF phase = 3 THEN alternateDisplay
                  ELSE IF phase = 4
                  THEN ScrambleDigits(alternateDisplay, msCount,
                                      0, OffsetOut(msCount) + 1)
                  ELSE IF phase = 5
                  THEN ScrambleDigits(regularDisplay, msCount,
                                      OffsetOut(msCount) + 1, 6)
                  ELSE NumberArray
             /\ displayType' =
                  IF phase = 1
                  THEN ScrollTypes(displayType, ScrollOutArg(msCount))
                  ELSE IF phase = 2
                  THEN ScrollTypes(savedDisplayType, 5 - OffsetIn(msCount))
                  ELSE displayType
             /\ scrollback' = IF phase = 2 THEN savedScrollback ELSE scrollback
     ELSE UNCHANGED << NumberArray, LiveMode >>

\* what an untimed call leaves of the call record
UntimedRecord(name) ==
  /\ tOp' = name /\ tRet' = FALSE
  /\ UNCHANGED << Config, Session, now, saidFalse, args >>

\* Transition::updateRegularDisplaySeconds(seconds)
updateRegularDisplaySeconds(seconds) ==
  /\ snapCalls < MaxSnapCalls
  /\ snapCalls' = snapCalls + 1
  /\ UntimedRecord("updateRegularDisplaySeconds")
  /\ regularDisplay' = [regularDisplay EXCEPT ![5] = seconds % 10,
                                              ![4] = CDiv(seconds, 10)]
  /\ UNCHANGED << alternateDisplay, SavedMode, LiveMode, NumberArray, SaveRecord >>

\* Transition::setRegularValues
setRegularValues ==
  /\ snapCalls < MaxSnapCalls
  /\ snapCalls' = snapCalls + 1
  /\ UntimedRecord("setRegularValues")
  /\ regularDisplay' = NumberArray
  /\ UNCHANGED << alternateDisplay, SavedMode, LiveMode, NumberArray, SaveRecord >>

\* Transition::setAlternateValues
setAlternateValues ==
  /\ snapCalls < MaxSnapCalls
  /\ snapCalls' = snapCalls + 1
  /\ UntimedRecord("setAlternateValues")
  /\ alternateDisplay' = NumberArray
  /\ UNCHANGED << regularDisplay, SavedMode, LiveMode, NumberArray, SaveRecord >>

\* Transition::loadRegularValues
loadRegularValues ==
  /\ UntimedRecord("loadRegularValues")
  /\ NumberArray' = regularDisplay
  /\ UNCHANGED << Snapshots, SavedMode, LiveMode, snapCalls, SaveRecord >>

\* Transition::loadAlternateValues
loadAlternateValues ==
  /\ UntimedRecord("loadAlternateValues")
  /\ NumberArray' = alternateDisplay
  /\ UNCHANGED << Snapshots, SavedMode, LiveMode, snapCalls, SaveRecord >>

\* Transition::saveCurrentDisplayType called by the caller
callSaveCurrentDisplayType ==
  /\ UntimedRecord("saveCurrentDisplayType")
  /\ saveCurrentDisplayType
  /\ preDisplayType' = displayType
  /\ preScrollback' = scrollback
  /\ UNCHANGED << Snapshots, NumberArray, displayType, snapCalls >>

\* Transition::restoreCurrentDisplayType
restoreCurrentDisplayType ==
  /\ UntimedRecord("restoreCurrentDisplayType")
  /\ displayType' = savedDisplayType
  /\ scrollback' = savedScrollback
  /\ UNCHANGED << Snapshots, SavedMode, NumberArray, snapCalls, SaveRecord >>

\* what a direct call of a private helper leaves of the call record
HelperRecord(name, arguments) ==
  /\ tOp' = name /\ tRet' = FALSE /\ args' = arguments
  /\ UNCHANGED << Config, Session, now, saidFalse, Snapshots, SavedMode,
                  snapCalls, SaveRecord, scrollback >>

\* Transition::scroll(count), called on its own
scroll(count) ==
  /\ HelperRecord("scroll", << count >>)
  /\ NumberArray' = ScrollDigits(NumberArray, count)
  /\ displayType' = ScrollTypes(displayType, count)

\* Transition::scramble(msCount, start, end), called on its own
scramble(msCount, first, last) ==
  /\ HelperRecord("scramble", << msCount, first, last >>)
  /\ NumberArray' = ScrambleDigits(NumberArray, msCount, first, last)
  /\ UNCHANGED displayType

\* a step of the transition engine leaves the button alone
ButtonIdle == UNCHANGED bvars

\* every interleaving of the timed calls, the loads and the save and restore
\* of the display type
TransitionNext ==
  \/ \E dt \in ClockSteps : start(dt) /\ UNCHANGED driven /\ ButtonIdle
  \/ \E dt \in ClockSteps : isMessageOnDisplay(dt) /\ UNCHANGED driven /\ ButtonIdle
  \/ \E dt \in ClockSteps : scrollMsg(dt) /\ UNCHANGED driven /\ ButtonIdle
  \/ \E dt \in ClockSteps : scrambleMsg(dt) /\ UNCHANGED driven /\ ButtonIdle
  \/ \E dt \in ClockSteps : scrollInScrambleOut(dt) /\ UNCHANGED driven /\ ButtonIdle
  \/ loadRegularValues /\ UNCHANGED driven /\ ButtonIdle
  \/ loadAlternateValues /\ UNCHANGED driven /\ ButtonIdle
  \/ callSaveCurrentDisplayType /\ UNCHANGED driven /\ ButtonIdle
  \/ restoreCurrentDisplayType /\ UNCHANGED driven /\ ButtonIdle

----------------------------------------------------------------------------
\* The display loop of the caller: it sets the snapshots, starts a session,
\* calls one stepper at every millisecond while it returns true and then
\* restores the display type.

\* the session has been driven by stepper name, or by none yet
DrivenBy(name) == driven \in {"fresh", name}

loopSetRegularValues ==
  /\ driven = "none" /\ setRegularValues /\ UNCHANGED driven

loopSetAlternateValues ==
  /\ driven = "none" /\ setAlternateValues /\ UNCHANGED driven

loopStart(dt) ==
  /\ driven \in {"none", "over"}
  /\ start(dt)
  /\ driven' = IF mayStart(now') THEN "fresh" ELSE driven

\* the seconds are refreshed before a stepper call of a running session
loopUpdateSeconds(seconds) ==
  /\ driven \in Steppers /\ tOp \in Steppers
  /\ stillRunning(now + 1)
  /\ updateRegularDisplaySeconds(seconds)
  /\ UNCHANGED driven

loopScrollMsg ==
  /\ DrivenBy("scrollMsg")
  /\ scrollMsg(IF tOp = "start" THEN 0 ELSE 1)
  /\ driven' = "scrollMsg"

loopScrambleMsg ==
  /\ DrivenBy("scrambleMsg")
  /\ scrambleMsg(IF tOp = "start" THEN 0 ELSE 1)
  /\ driven' = "scrambleMsg"

loopScrollInScrambleOut ==
  /\ DrivenBy("scrollInScrambleOut")
  /\ scrollInScrambleOut(IF tOp = "start" THEN 0 ELSE 1)
  /\ driven' = "scrollInScrambleOut"

loopRestore ==
  /\ driven \in Steppers /\ tOp \in Steppers /\ ~tRet
  /\ restoreCurrentDisplayType
  /\ driven' = "over"

DisplayLoopNext ==
  \/ loopSetRegularValues /\ ButtonIdle
  \/ loopSetAlternateValues /\ ButtonIdle
  \/ \E dt \in {0, 1} : loopStart(dt) /\ ButtonIdle
  \/ \E seconds \in SecondsArgs : loopUpdateSeconds(seconds) /\ ButtonIdle
  \/ loopScrollMsg /\ ButtonIdle
  \/ loopScrambleMsg /\ ButtonIdle
  \/ loopScrollInScrambleOut /\ ButtonIdle
  \/ loopRestore /\ ButtonIdle

----------------------------------------------------------------------------
\* The private helpers scroll and scramble applied once to buffers drawn from
\* HelperDigits and HelperDisplayTypes; a scramble may be repeated with the
\* same slots and an msCount of the same 20 ms bucket.

ScrollArgs == (-6)..6
ScrambleMs == {0, 19, 20, MaxScrambleMs}

HelperDigits ==
  { [i \in Slots |-> i + 1], [i \in Slots |-> 9 - i], [i \in Slots |-> 7] }
HelperDisplayTypes ==
  { [i \in Slots |-> IF i < 2 THEN NORMAL ELSE BLINK],
    [i \in Slots |-> IF i = 1 THEN BLANKED ELSE BRIGHT],
    [i \in Slots |-> i + 1] }

helperScroll(count) ==
  /\ tOp = "Transition"
  /\ scroll(count)
  /\ UNCHANGED driven

helperScramble(msCount, first, last) ==
  /\ tOp = "Transition"
  /\ scramble(msCount, first, last)
  /\ UNCHANGED driven

helperScrambleAgain(msCount) ==
  /\ tOp = "scramble"
  /\ CDiv(msCount, 20) = CDiv(args[1], 20)
  /\ scramble(msCount, args[2], args[3])
  /\ UNCHANGED driven

HelperNext ==
  \/ \E count \in ScrollArgs : helperScroll(count) /\ ButtonIdle
  \/ \E msCount \in ScrambleMs, first \in 0..6, last \in 0..6 :
        first <= last /\ helperScramble(msCount, first, last) /\ ButtonIdle
  \/ \E msCount \in ScrambleMs : helperScrambleAgain(msCount) /\ ButtonIdle

----------------------------------------------------------------------------
\* Specifications

\* the private helpers of the transition engine on their own
HelperInit ==
  /\ ConstructedWith({MaxEffect}, {MaxHold}, 0, HelperDigits, HelperDisplayTypes)
  /\ ButtonInit

HelperSpec == HelperInit /\ [][HelperNext]_vars

\* the button under every interleaving of its public methods; the transition
\* engine is constructed and never used
ButtonOnlyInit ==
  /\ ButtonInit
  /\ Constructed({MaxEffect}, {MaxHold}, 0)
  /\ ~scrollback /\ ~savedScrollback

ButtonSpec == ButtonOnlyInit /\ [][ButtonNext]_vars

\* the transition engine under TransitionNext; the button is constructed and
\* never used
TransitionInit ==
  /\ Constructed(1..MaxShortEffect, {MaxHold}, MaxNow)
  /\ ButtonInit

TransitionSpec == TransitionInit /\ [][TransitionNext]_vars

\* the transition engine driven by the display loop
DisplayLoopInit ==
  /\ Constructed(MinEffect..MaxEffect, 0..MaxHold, MaxLoopNow)
  /\ ButtonInit

DisplayLoopSpec == DisplayLoopInit /\ [][DisplayLoopNext]_vars

----------------------------------------------------------------------------
\* Properties of ClockButton

LevelFlags == << buttonPress8S, buttonPress2S, buttonPress1S, buttonPress >>
ReleasedFlags == << buttonPressRelease8S, buttonPressRelease2S,
                   buttonPressRelease1S, buttonPressRelease >>
NoFlags == << FALSE, FALSE, FALSE, FALSE >>

\* the last call was a pressed tick that found the counter at the threshold
HeldTick == bOp = "checkButton" /\ pin = 0 /\ prevCount = debounceCounter
HeldFor == millis - button1PressStartMillis

\* the last call was a released tick that found the counter at the threshold
ReleaseTick == bOp = "checkButton" /\ pin = 1 /\ prevCount = debounceCounter

\* C1 as stated: after a pressed tick at the threshold the level flags are
\* pressed only for held < 1000, +1s for 1000 <= held < 2000, +2s for
\* 2000 <= held < 8000 and all four for held >= 8000, boundaries included.
C1_TiersInclusive ==
  HeldTick =>
    LevelFlags = IF HeldFor < 1000 THEN << FALSE, FALSE, FALSE, TRUE >>
                 ELSE IF HeldFor < 2000 THEN << FALSE, FALSE, TRUE, TRUE >>
                 ELSE IF HeldFor < 8000 THEN << FALSE, TRUE, TRUE, TRUE >>
                 ELSE << TRUE, TRUE, TRUE, TRUE >>

\* C1 amended: a tier is entered only once the held time exceeds its limit:
\* held <= 1000 pressed only, 1000 < held <= 2000 +1s, 2000 < held <= 8000
\* +2s, held > 8000 all four.
C1_TiersExclusive ==
  HeldTick =>
    /\ buttonPress
    /\ buttonPress1S = (HeldFor >= 1001)
    /\ buttonPress2S = (HeldFor >= 2001)
    /\ buttonPress8S = (HeldFor >= 8001)

\* C1 witness: a pressed tick exactly 1000 ms after the press started, on
\* which only the pressed flag is up
C1_Witness ==
  HeldTick /\ HeldFor = 1000 /\ LevelFlags = << FALSE, FALSE, FALSE, TRUE >>

\* C2 as stated: a released tick that finds the counter at the threshold sets
\* exactly the release flag of the highest tier the press reached (tier 1 from
\* the tick on which the counter reached the threshold), clears the level
\* flags and zeroes the counter.
C2_ReleaseFiresOneFlag ==
  ReleaseTick =>
    /\ ReleasedFlags = << tier = 4, tier = 3, tier = 2, tier = 1 >>
    /\ LevelFlags = NoFlags
    /\ button1PressedCount = 0

\* C3: while every run of pressed readings since the button was idle has been
\* shorter than the debounce threshold, no release flag and no level flag is
\* set.
C3_ShortRunsFireNothing ==
  allShort => ReleasedFlags = NoFlags /\ LevelFlags = NoFlags

\* C3 witness: a run of threshold - 1 pressed readings has just been released
C3_Witness ==
  /\ allShort /\ bOp = "checkButton" /\ pin = 1
  /\ prevCount = debounceCounter - 1
  /\ button1PressedCount = 0

ReleaseAccessors == { "isButtonPressedAndReleased", "isButtonPressedReleased1S",
                      "isButtonPressedReleased2S", "isButtonPressedReleased8S" }
LevelAccessors == { "isButtonPressedNow", "isButtonPressed", "isButtonPressed1S",
                    "isButtonPressed2S", "isButtonPressed8S" }

\* C10: a release accessor returns its flag and leaves it false, so the same
\* accessor called again at once returns false; it changes no other release
\* flag, no level flag and not the counter; a level accessor and
\* isButtonPressedNow change nothing.
C10_ReadAndClear ==
  [][ /\ (bOp' = "isButtonPressedAndReleased" =>
            /\ bRet' = buttonPressRelease /\ ~buttonPressRelease'
            /\ UNCHANGED << ButtonCore, buttonPressRelease8S,
                            buttonPressRelease2S, buttonPressRelease1S >>)
      /\ (bOp' = "isButtonPressedReleased1S" =>
            /\ bRet' = buttonPressRelease1S /\ ~buttonPressRelease1S'
            /\ UNCHANGED << ButtonCore, buttonPressRelease8S,
                            buttonPressRelease2S, buttonPressRelease >>)
      /\ (bOp' = "isButtonPressedReleased2S" =>
            /\ bRet' = buttonPressRelease2S /\ ~buttonPressRelease2S'
            /\ UNCHANGED << ButtonCore, buttonPressRelease8S,
                            buttonPressRelease1S, buttonPressRelease >>)
      /\ (bOp' = "isButtonPressedReleased8S" =>
            /\ bRet' = buttonPressRelease8S /\ ~buttonPressRelease8S'
            /\ UNCHANGED << ButtonCore, buttonPressRelease2S,
                            buttonPressRelease1S, buttonPressRelease >>)
      /\ (bOp' \in LevelAccessors => UNCHANGED << ButtonCore, ReleaseCore >>)
      /\ (bOp' \in ReleaseAccessors /\ bOp = bOp' => ~bRet')
    ]_vars

\* C10 witness: a release accessor has just delivered its flag and cleared it
C10_Witness ==
  /\ bOp = "isButtonPressedReleased2S" /\ bRet
  /\ ReleasedFlags = NoFlags

----------------------------------------------------------------------------
\* Properties of Transition

\* the time of end of a session that starts at time t
EndOfSessionFrom(t) ==
  t + 2 * effectInDuration + holdDuration + 2 * effectOutDuration

\* C4 as stated: whenever isMessageOnDisplay(now) is false (end <= now),
\* start(now) begins a new session: started = now, end = now + 2*effectIn +
\* hold + 2*effectOut, the live display modes and the scrollback flag are
\* snapshotted and the live scrollback flag is cleared; now = end of the
\* previous session and start(0) on a fresh engine included.
C4_StartWhenIdle ==
  [][ (tOp' = "start" /\ end <= now') =>
        /\ started' = now'
        /\ end' = EndOfSessionFrom(now')
        /\ savedDisplayType' = displayType
        /\ savedScrollback' = scrollback
        /\ ~scrollback'
    ]_vars

\* C5: start(now) while isMessageOnDisplay(now) is true (now < end) changes
\* neither started nor end, nor the saved display modes, the saved scrollback
\* flag, the live display modes, the live scrollback flag or the digits.
C5_StartWhileRunningIsNoOp ==
  [][ (tOp' = "start" /\ now' < end) =>
        UNCHANGED << started, end, savedDisplayType, savedScrollback,
                     displayType, scrollback, NumberArray >>
    ]_vars

\* C5 witness: start has just been called in the middle of a session that
\* began earlier, with the scrollback flag saved as set
C5_Witness ==
  /\ tOp = "start" /\ started < now /\ now < end
  /\ savedScrollback /\ ~scrollback

\* C6: each stepper returns true exactly when now < end, and once a stepper
\* has returned false every stepper keeps returning false until a start
\* begins a new session.
C6_StepperReturnsRunning ==
  [][ tOp' \in Steppers =>
        /\ tRet' = (now' < end')
        /\ saidFalse => ~tRet'
    ]_vars

\* C6 witness: a stepper called at the very millisecond the session ends has
\* returned false, after a stepper had already returned false
C6_Witness ==
  /\ tOp \in Steppers /\ ~tRet /\ end > 0 /\ now = end
  /\ saidFalse

\* C7 as stated: from a successful start until the session expires, the live
\* scrollback flag is false after every stepper call, whichever the stepper
\* and whatever the flag was before start.
C7_ScrollbackOffWhileRunning ==
  (tOp \in Steppers /\ tRet) => ~scrollback

\* C8: within a session (after a successful start or an explicit
\* saveCurrentDisplayType), restoreCurrentDisplayType returns the live display
\* modes and the scrollback flag to the values they had immediately before,
\* whatever stepper calls came in between and whether or not the session ran
\* to its end.
C8_RestoreReturnsSavedMode ==
  (tOp = "restoreCurrentDisplayType" /\ preDisplayType[0] # -1) =>
    /\ displayType = preDisplayType
    /\ scrollback = preScrollback

\* C8 witness: restore has been called in the middle of a session whose
\* steppers had scrambled the digits, and the scrollback flag is set again
C8_Witness ==
  /\ tOp = "restoreCurrentDisplayType"
  /\ started > 0 /\ started < now /\ now < end
  /\ NumberArray \notin InitialDigits \cup {regularDisplay, alternateDisplay}
  /\ preScrollback /\ scrollback
  /\ displayType = preDisplayType

\* C9 as stated: when a stepper has been called at every millisecond from
\* start until it first returns false, the live digits equal the regular
\* snapshot, for each stepper and every configuration of the durations.
C9_EndsOnRegularDigits ==
  (tOp \in Steppers /\ ~tRet /\ driven = tOp) => NumberArray = regularDisplay

----------------------------------------------------------------------------
\* Further properties of ClockButton

\* number of release flags that are set
FlagCount(flags) == Cardinality({ i \in 1..4 : flags[i] })

\* C11: in every reachable state at most one of the four release flags is
\* set.
C11_ReleaseFlagsExclusive == FlagCount(ReleasedFlags) <= 1

\* C11 witness: a press that had reached the 2 s tier has just been released
\* with the 1 s tier's level flag up as well, and only the 2 s release flag is
\* set
C11_Witness ==
  /\ ReleaseTick /\ tier = 3
  /\ ReleasedFlags = << FALSE, TRUE, FALSE, FALSE >>

\* C12: in every reachable state the counter is within 0..debounceCounter, the
\* level flags are nested (8s => 2s => 1s => pressed) and a level flag is set
\* only while the counter is at the threshold.
C12_WellFormed ==
  /\ button1PressedCount \in 0..debounceCounter
  /\ buttonPress8S => buttonPress2S
  /\ buttonPress2S => buttonPress1S
  /\ buttonPress1S => buttonPress
  /\ (LevelFlags # NoFlags) => button1PressedCount = debounceCounter

\* C12 witness: the button is held past 8 s and all four level flags are up
C12_Witness ==
  /\ LevelFlags = << TRUE, TRUE, TRUE, TRUE >>
  /\ button1PressedCount = debounceCounter

AllAccessors == LevelAccessors \cup ReleaseAccessors

\* C13: reset leaves the four level flags and the four release flags false and
\* the counter at 0, every accessor called next returns false, and from there
\* the counter climbs by one per pressed tick, the press start being recorded
\* anew on the tick at which it reaches the threshold.
C13_ResetForcesIdle ==
  [][ /\ (bOp' = "reset" =>
            /\ LevelFlags' = NoFlags /\ ReleasedFlags' = NoFlags
            /\ button1PressedCount' = 0)
      /\ (bOp = "reset" /\ bOp' \in AllAccessors => ~bRet')
      /\ (button1PressedCount' > button1PressedCount =>
            /\ bOp' = "checkButton" /\ pin' = 0
            /\ button1PressedCount' = button1PressedCount + 1)
      /\ (button1PressedCount' = debounceCounter
             /\ button1PressedCount < debounceCounter =>
            button1PressStartMillis' = millis')
    ]_vars

\* C13 witness: reset has been called while the button was held with the 1 s
\* level flag up
C13_Witness ==
  /\ bOp = "reset" /\ prevCount = debounceCounter /\ pin = 0
  /\ tier >= 2 /\ button1PressedCount = 0

\* C14 as stated: after every checkButton tick the pressed level flag is set
\* exactly when the counter is at the threshold, the tick at which the counter
\* first reaches the threshold included.
C14_PressedAgreesWithNow ==
  bOp = "checkButton" => (buttonPress = (button1PressedCount = debounceCounter))

----------------------------------------------------------------------------
\* Properties of the private helpers of Transition

\* C15: scroll(count) with 0 <= count <= 6 gives every slot i >= count the
\* old digit of slot i - count, sets the display mode of every slot i < count
\* to BLANKED and changes no other display mode; nothing wraps around, and
\* scroll(0) changes neither buffer.
C15_ScrollRight ==
  [][ (tOp' = "scroll" /\ args'[1] \in 0..6) =>
        LET count == args'[1]
        IN /\ \A i \in Slots : i >= count => NumberArray'[i] = NumberArray[i - count]
           /\ \A i \in Slots : i < count => NumberArray'[i] = NumberArray[i]
           /\ \A i \in Slots :
                 displayType'[i] = IF i < count THEN BLANKED ELSE displayType[i]
           /\ count = 0 => UNCHANGED << NumberArray, displayType >>
    ]_vars

\* C15 witness: scroll(2) has turned 1 2 3 4 5 6 into 1 2 1 2 3 4 and blanked
\* the two leading slots only
C15_Witness ==
  /\ tOp = "scroll" /\ args = << 2 >>
  /\ NumberArray = [i \in Slots |-> IF i < 2 THEN i + 1 ELSE i - 1]
  /\ displayType = [i \in Slots |-> IF i < 2 THEN BLANKED ELSE BLINK]

\* C16 as stated: scroll(-k) with 1 <= k <= 6 gives every slot j <= 5 - k the
\* old digit of slot j + k and sets the display mode of exactly the k slots
\* 6 - k .. 5 to BLANKED.
C16_ScrollLeft ==
  [][ (tOp' = "scroll" /\ args'[1] \in (-6)..(-1)) =>
        LET k == -args'[1]
        IN /\ \A j \in Slots : j <= 5 - k => NumberArray'[j] = NumberArray[j + k]
           /\ \A j \in Slots :
                 displayType'[j] = IF j >= 6 - k THEN BLANKED ELSE displayType[j]
    ]_vars

\* C17: scramble(e, start, end) with 0 <= start <= end <= 6 writes the slots
\* start .. end - 1 with values in 0..9 and leaves every other digit, the
\* display modes and the session state alone; start = end changes nothing;
\* a second call with the same slots and an e of the same e / 20 leaves the
\* digits as the first call made them.
C17_ScrambleFrame ==
  [][ tOp' = "scramble" =>
        /\ \A i \in Slots :
             IF args'[2] <= i /\ i < args'[3]
             THEN NumberArray'[i] \in 0..9
             ELSE NumberArray'[i] = NumberArray[i]
        /\ UNCHANGED << displayType, scrollback, Session, Snapshots, SavedMode >>
        /\ (args'[2] = args'[3] => UNCHANGED NumberArray)
        /\ (tOp = "scramble" => UNCHANGED NumberArray)
    ]_vars

\* C17 witness: scramble(19, 2, 5) has been repeated after scramble(0, 2, 5)
\* on the digits 7 7 7 7 7 7, of which the slots 0, 1 and 5 are as before
\* and a slot in between is not
C17_Witness ==
  /\ tOp = "scramble" /\ args = << 19, 2, 5 >>
  /\ NumberArray[0] = 7 /\ NumberArray[1] = 7 /\ NumberArray[5] = 7
  /\ \E i \in 2..4 : NumberArray[i] # 7

----------------------------------------------------------------------------
\* Further properties of Transition

\* time elapsed since the exit phase that msCount lies in began
ElapsedInExitPhase(msCount) ==
  LET exitStart == 2 * effectInDuration + holdDuration
  IN IF msCount < exitStart + effectOutDuration
     THEN msCount - exitStart
     ELSE msCount - exitStart - effectOutDuration

\* C18 as stated: in the exit phases 4 and 5 of every stepper the quantized
\* offset is floor(p * 6 / effectOut) for the time p elapsed since the phase
\* began, whatever the durations.
C18_ExitOffsetFromPhaseStart ==
  (tOp \in Steppers /\ tRet /\ Phase(now - started) \in {4, 5}) =>
    OffsetOut(now - started) =
      (ElapsedInExitPhase(now - started) * 6) \div effectOutDuration

SessionState == << started, end, regularDisplay, alternateDisplay,
                   savedDisplayType, savedScrollback >>

\* C19: a stepper call changes neither started nor end, nor the regular and
\* alternate snapshots, the saved display modes or the saved scrollback flag;
\* called with now >= end it changes the live digits, display modes and
\* scrollback flag neither.
C19_SteppersKeepSession ==
  [][ tOp' \in Steppers =>
        /\ UNCHANGED SessionState
        /\ (now' >= end => UNCHANGED << NumberArray, displayType, scrollback >>)
    ]_vars

\* C19 witness: a stepper has been called after the end of a session it had
\* not driven to its end, the live buffers being as the session left them
C19_Witness ==
  /\ tOp \in Steppers /\ ~tRet /\ end > 0 /\ now > end
  /\ displayType # savedDisplayType
  /\ NumberArray \notin {regularDisplay, alternateDisplay}

\* C20: in a session driven by scrollMsg alone, a scrollMsg call leaves every
\* display mode as it was or BLANKED, so a slot once BLANKED stays BLANKED
\* until restoreCurrentDisplayType; scrambleMsg never writes the display modes.
C20_ScrollMsgOnlyBlanks ==
  [][ /\ (tOp' = "scrollMsg" /\ driven' = "scrollMsg" =>
            \A i \in Slots : displayType'[i] \in {displayType[i], BLANKED})
      /\ (tOp' = "scrambleMsg" => UNCHANGED displayType)
    ]_vars

\* C20 witness: scrollMsg has reached the hold phase of a session it drove
\* alone, and every display mode is BLANKED
C20_Witness ==
  /\ tOp = "scrollMsg" /\ driven = "scrollMsg" /\ tRet
  /\ Phase(now - started) = 3
  /\ \A i \in Slots : displayType[i] = BLANKED

====
